---- MODULE Spec2Model ----
(***************************************************************************)
(* A model of A_type.py: the AST classes and their rendering, the          *)
(* recursive-descent parser, capture-unsafe substitution, the single-step  *)
(* beta reducer and the normalization loop, and the LambdaBetaReduce       *)
(* driver that chains them.                                                *)
(*                                                                         *)
(* Text is a sequence of one-character strings.  The parser's cursor pos   *)
(* is 0-based as in the source, so expr_str[pos] is s[pos + 1] here.       *)
(***************************************************************************)
EXTENDS Integers, Sequences, FiniteSets, TLC

VARIABLES
    string_lambda,  \* the text handed to LambdaBetaReduce / parse
    pc,             \* where the driver stands
    parsed,         \* the outcome of parse(string_lambda)
    current,        \* full_beta_reduce: the term being reduced
    changed,        \* full_beta_reduce: the flag of the last step
    printed,        \* the rendering of the parsed expression
    reparsed,       \* the outcome of parse applied to printed
    spaced,         \* string_lambda with characters inserted
    inserted,       \* the set of characters inserted to obtain spaced
    parsed_spaced,  \* the outcome of parse(spaced)
    factors,        \* the factor texts string_lambda was written from
    subst_args,     \* the arguments <<expr, v, sub>> of a substitute call
    subst_result    \* what that call returned

vars == <<string_lambda, pc, parsed, current, changed, printed, reparsed,
          spaced, inserted, parsed_spaced, factors, subst_args, subst_result>>

-----------------------------------------------------------------------------
(* Bounds *)

MaxLen == 4
MaxSize == 6
MaxExprSize == 6
MaxSubSize == 2
MaxGrow == 12
MaxSpacedLen == 3
MaxInsert == 2
MaxFactors == 3

-----------------------------------------------------------------------------
(* Characters *)

Letters == {"x", "y"}
LambdaSyms == {"λ", "\\"}
Space == " "
Tab == "\t"
Alphabet == Letters \cup LambdaSyms \cup {"(", ")", ".", Space, Tab}

\* str.isalpha on one character: the Greek letter is alphabetic, the
\* backslash and the punctuation are not.
isalpha(c) == c \in Letters \cup {"λ"}

-----------------------------------------------------------------------------
(* The AST classes *)

None == <<"None">>
Var(name) == <<"Var", name>>
Lambda(var, body) == <<"Lambda", var, body>>
App(func, arg) == <<"App", func, arg>>

IsVar(e) == e[1] = "Var"
IsLambda(e) == e[1] = "Lambda"
IsApp(e) == e[1] = "App"

RECURSIVE repr(_)
repr_Var(e) == <<e[2]>>
repr_Lambda(e) == <<"(", "λ">> \o repr(e[2]) \o <<".">> \o repr(e[3]) \o <<")">>
\* a rendering of App that leaves the parentheses out
repr_App_bare(e) == repr(e[2]) \o <<Space>> \o repr(e[3])
repr_App(e) == <<"(">> \o repr(e[2]) \o <<Space>> \o repr(e[3]) \o <<")">>
repr(e) ==
    IF IsVar(e) THEN repr_Var(e)
    ELSE IF IsLambda(e) THEN repr_Lambda(e)
    ELSE repr_App(e)

-----------------------------------------------------------------------------
(* parse *)

\* A parse outcome: a term and the cursor after it, or a SyntaxError with
\* its message (ch is the offending character of "Unexpected character").
Ok(term, pos) == [ok |-> TRUE, term |-> term, pos |-> pos, msg |-> "", ch |-> ""]
Raise(msg, pos, ch) == [ok |-> FALSE, term |-> None, pos |-> pos, msg |-> msg, ch |-> ch]
NoOutcome == [ok |-> FALSE, term |-> None, pos |-> 0, msg |-> "not called", ch |-> ""]

RECURSIVE remove_spaces(_)
\* a strip of the leading spaces only
remove_leading_spaces(s) ==
    IF s # <<>> /\ Head(s) = Space THEN remove_spaces(Tail(s)) ELSE s
\* expr_str.replace(" ", "")
remove_spaces(s) ==
    IF s = <<>> THEN <<>>
    ELSE IF Head(s) = Space THEN remove_spaces(Tail(s))
    ELSE <<Head(s)>> \o remove_spaces(Tail(s))

RECURSIVE parse_expr(_, _), parse_lambda(_, _), parse_app(_, _),
          parse_app_loop(_, _, _), parse_factor(_, _)

parse_expr(s, pos) ==
    IF pos < Len(s) /\ s[pos + 1] \in LambdaSyms
    THEN parse_lambda(s, pos)
    ELSE parse_app(s, pos)

parse_lambda(s, pos) ==
    IF pos >= Len(s) THEN Raise("IndexError", pos, "")
    ELSE IF s[pos + 1] \notin LambdaSyms THEN Raise("Expected lambda", pos, "")
    ELSE IF pos + 1 >= Len(s) \/ ~isalpha(s[pos + 2])
    THEN Raise("Expected a variable after lambda", pos + 1, "")
    ELSE IF pos + 2 >= Len(s) \/ s[pos + 3] # "."
    THEN Raise("Expected dot after lambda variable", pos + 2, "")
    ELSE LET body == parse_expr(s, pos + 3)
         IN  IF body.ok
             THEN Ok(Lambda(Var(s[pos + 2]), body.term), body.pos)
             ELSE body

\* a loop that parses the rest of the chain as the argument
parse_app_loop_right(s, pos, left) ==
    IF pos < Len(s) /\ s[pos + 1] \notin {")", "."}
    THEN LET right == parse_app(s, pos)
         IN  IF right.ok THEN Ok(App(left, right.term), right.pos) ELSE right
    ELSE Ok(left, pos)

\* the while loop of parse_app, entered with the term parsed so far
parse_app_loop(s, pos, left) ==
    IF pos < Len(s) /\ s[pos + 1] \notin {")", "."}
    THEN LET right == parse_factor(s, pos)
         IN  IF right.ok
             THEN parse_app_loop(s, right.pos, App(left, right.term))
             ELSE right
    ELSE Ok(left, pos)

parse_app(s, pos) ==
    LET left == parse_factor(s, pos)
    IN  IF left.ok THEN parse_app_loop(s, left.pos, left.term) ELSE left

\* a parse_factor that reads expr_str[pos] for the ')' without the bounds test
parse_factor_unguarded(s, pos) ==
    IF pos >= Len(s) THEN Raise("Unexpected end of input", pos, "")
    ELSE IF s[pos + 1] = "("
    THEN LET exp == parse_expr(s, pos + 1)
         IN  IF ~exp.ok THEN exp
             ELSE IF exp.pos >= Len(s) THEN Raise("IndexError", exp.pos, "")
             ELSE IF s[exp.pos + 1] # ")" THEN Raise("Expected ')'", exp.pos, "")
             ELSE Ok(exp.term, exp.pos + 1)
    ELSE IF s[pos + 1] \in LambdaSyms THEN parse_lambda(s, pos)
    ELSE IF isalpha(s[pos + 1]) THEN Ok(Var(s[pos + 1]), pos + 1)
    ELSE Raise("Unexpected character", pos, s[pos + 1])

parse_factor(s, pos) ==
    IF pos >= Len(s) THEN Raise("Unexpected end of input", pos, "")
    ELSE IF s[pos + 1] = "("
    THEN LET exp == parse_expr(s, pos + 1)
         IN  IF ~exp.ok THEN exp
             ELSE IF exp.pos >= Len(s) \/ s[exp.pos + 1] # ")"
             THEN Raise("Expected ')'", exp.pos, "")
             ELSE Ok(exp.term, exp.pos + 1)
    ELSE IF s[pos + 1] \in LambdaSyms THEN parse_lambda(s, pos)
    ELSE IF isalpha(s[pos + 1]) THEN Ok(Var(s[pos + 1]), pos + 1)
    ELSE Raise("Unexpected character", pos, s[pos + 1])

\* an end of parse that returns whatever prefix was parsed
parse_end_unchecked(s, p) == p

\* the end of parse: the whole stripped text must have been consumed
parse_end(s, p) ==
    IF ~p.ok THEN p
    ELSE IF p.pos # Len(s)
    THEN Raise("Extra characters after valid expression", p.pos, "")
    ELSE p

parse(expr_str) ==
    LET s == remove_spaces(expr_str)
    IN  parse_end(s, parse_expr(s, 0))

-----------------------------------------------------------------------------
(* substitute, beta_reduce *)

RECURSIVE FreeVars(_)
FreeVars(e) ==
    IF IsVar(e) THEN {e[2]}
    ELSE IF IsLambda(e) THEN FreeVars(e[3]) \ {e[2][2]}
    ELSE FreeVars(e[2]) \cup FreeVars(e[3])

RECURSIVE substitute(_, _, _)

\* a substitution that replaces every variable, whatever its name
substitute_any_var(expr, v, sub) ==
    IF IsVar(expr) THEN sub
    ELSE IF IsLambda(expr)
    THEN (IF expr[2][2] = v[2] THEN expr
          ELSE Lambda(expr[2], substitute(expr[3], v, sub)))
    ELSE App(substitute(expr[2], v, sub), substitute(expr[3], v, sub))

\* a substitution that leaves the argument of an application alone
substitute_func_only(expr, v, sub) ==
    IF IsVar(expr) THEN (IF expr[2] = v[2] THEN sub ELSE expr)
    ELSE IF IsLambda(expr)
    THEN (IF expr[2][2] = v[2] THEN expr
          ELSE Lambda(expr[2], substitute(expr[3], v, sub)))
    ELSE App(substitute(expr[2], v, sub), expr[3])

\* a capture-avoiding substitution: a binder that would capture a free
\* variable of sub is renamed to "z" first
substitute_renaming(expr, v, sub) ==
    IF IsVar(expr) THEN (IF expr[2] = v[2] THEN sub ELSE expr)
    ELSE IF IsLambda(expr)
    THEN (IF expr[2][2] = v[2] THEN expr
          ELSE IF expr[2][2] \in FreeVars(sub) /\ v[2] \in FreeVars(expr[3])
          THEN Lambda(Var("z"),
                      substitute(substitute(expr[3], expr[2], Var("z")), v, sub))
          ELSE Lambda(expr[2], substitute(expr[3], v, sub)))
    ELSE App(substitute(expr[2], v, sub), substitute(expr[3], v, sub))

substitute(expr, v, sub) ==
    IF IsVar(expr) THEN (IF expr[2] = v[2] THEN sub ELSE expr)
    ELSE IF IsLambda(expr)
    THEN (IF expr[2][2] = v[2] THEN expr
          ELSE Lambda(expr[2], substitute(expr[3], v, sub)))
    ELSE App(substitute(expr[2], v, sub), substitute(expr[3], v, sub))

RECURSIVE beta_reduce(_)

\* a step that never looks under a lambda
beta_reduce_skip_lambda(expr) ==
    IF IsApp(expr) /\ IsLambda(expr[2])
    THEN <<substitute(expr[2][3], expr[2][2], expr[3]), TRUE>>
    ELSE IF IsApp(expr)
    THEN LET f == beta_reduce(expr[2])
         IN  IF f[2] THEN <<App(f[1], expr[3]), TRUE>>
             ELSE LET a == beta_reduce(expr[3])
                  IN  IF a[2] THEN <<App(expr[2], a[1]), TRUE>>
                      ELSE <<expr, FALSE>>
    ELSE <<expr, FALSE>>

\* a step that tries the argument of an application before its function
beta_reduce_arg_first(expr) ==
    IF IsApp(expr) /\ IsLambda(expr[2])
    THEN <<substitute(expr[2][3], expr[2][2], expr[3]), TRUE>>
    ELSE IF IsApp(expr)
    THEN LET a == beta_reduce(expr[3])
         IN  IF a[2] THEN <<App(expr[2], a[1]), TRUE>>
             ELSE LET f == beta_reduce(expr[2])
                  IN  IF f[2] THEN <<App(f[1], expr[3]), TRUE>>
                      ELSE <<expr, FALSE>>
    ELSE IF IsLambda(expr)
    THEN LET b == beta_reduce(expr[3])
         IN  IF b[2] THEN <<Lambda(expr[2], b[1]), TRUE>>
             ELSE <<expr, FALSE>>
    ELSE <<expr, FALSE>>

\* one beta reduction step: <<the term after the step, reduced>>
beta_reduce(expr) ==
    IF IsApp(expr) /\ IsLambda(expr[2])
    THEN <<substitute(expr[2][3], expr[2][2], expr[3]), TRUE>>
    ELSE IF IsApp(expr)
    THEN LET f == beta_reduce(expr[2])
         IN  IF f[2] THEN <<App(f[1], expr[3]), TRUE>>
             ELSE LET a == beta_reduce(expr[3])
                  IN  IF a[2] THEN <<App(expr[2], a[1]), TRUE>>
                      ELSE <<expr, FALSE>>
    ELSE IF IsLambda(expr)
    THEN LET b == beta_reduce(expr[3])
         IN  IF b[2] THEN <<Lambda(expr[2], b[1]), TRUE>>
             ELSE <<expr, FALSE>>
    ELSE <<expr, FALSE>>

-----------------------------------------------------------------------------
(* The inputs the specifications draw from *)

RECURSIVE TermSize(_)
TermSize(e) ==
    IF IsVar(e) THEN 1
    ELSE IF IsLambda(e) THEN 1 + TermSize(e[3])
    ELSE 1 + TermSize(e[2]) + TermSize(e[3])

VarTerms == {Var(c) : c \in Letters}

RECURSIVE TermsOfSize(_)
TermsOfSize(n) ==
    IF n = 1 THEN VarTerms
    ELSE {Lambda(p, b) : p \in VarTerms, b \in TermsOfSize(n - 1)}
         \cup UNION {{App(f, a) : f \in TermsOfSize(i), a \in TermsOfSize(n - 1 - i)}
                     : i \in 1..(n - 2)}

TermsUpTo(n) == UNION {TermsOfSize(k) : k \in 1..n}
Terms == TermsUpTo(MaxSize)

StringsUpTo(n) == UNION {[1..k -> Alphabet] : k \in 0..n}

OmegaText ==
    <<"(", "λ", "x", ".", "(", "x", "x", ")", ")",
      "(", "λ", "x", ".", "(", "x", "x", ")", ")">>
SelfApp == Lambda(Var("x"), App(Var("x"), Var("x")))
Omega == App(SelfApp, SelfApp)
CaptureText == <<"(", "λ", "x", ".", "λ", "y", ".", "x", ")", "y">>
\* (λx.x)y((λx.x)y): a redex in the function and one in the argument
BothSidesText ==
    <<"(", "λ", "x", ".", "x", ")", "y",
      "(", "(", "λ", "x", ".", "x", ")", "y", ")">>
\* (λx.(λy.y)x)y: a redex inside the body of a top-level redex
NestedText ==
    <<"(", "λ", "x", ".", "(", "λ", "y", ".", "y", ")", "x", ")", "y">>

Examples ==
    { OmegaText, CaptureText, BothSidesText, NestedText,
      <<"(", "(", "λ", "x", ".", "x", ")", "y", ")">>,
      <<"x", "y", "z">>,
      <<"λ", "x", ".", "x">>,
      <<"\\", "x", ".", "x">>,
      <<"λ", "λ", ".", "x">>,
      <<"(", "x">>,
      <<"λ", ".", "x">>,
      <<"x", Space, "y", ")">>,
      <<>> }

Inputs == StringsUpTo(MaxLen) \cup {repr(t) : t \in Terms} \cup Examples

-----------------------------------------------------------------------------
(* LambdaBetaReduce: parse, then full_beta_reduce, one step at a time *)

Idle ==
    /\ printed = <<>>
    /\ reparsed = NoOutcome
    /\ spaced = <<>>
    /\ inserted = {}
    /\ parsed_spaced = NoOutcome
    /\ factors = <<>>
    /\ subst_args = <<None, None, None>>
    /\ subst_result = None

Init ==
    /\ string_lambda \in Inputs
    /\ pc = "start"
    /\ parsed = NoOutcome
    /\ current = None
    /\ changed = FALSE
    /\ Idle

\* parse(string_lambda); on a SyntaxError report it and return None, else
\* print the parsed expression and enter full_beta_reduce
LambdaBetaReduce_parse ==
    /\ pc = "start"
    /\ parsed' = parse(string_lambda)
    /\ IF parsed'.ok
       THEN /\ printed' = repr(parsed'.term)
            /\ current' = parsed'.term
            /\ changed' = TRUE
            /\ pc' = "reduce"
       ELSE /\ pc' = "syntax_error"
            /\ UNCHANGED <<printed, current, changed>>
    /\ UNCHANGED <<string_lambda, reparsed, spaced, inserted, parsed_spaced,
                   factors, subst_args, subst_result>>

\* one turn of the while loop of full_beta_reduce
full_beta_reduce_step ==
    /\ pc = "reduce"
    /\ changed
    /\ TermSize(current) <= MaxGrow
    /\ current' = beta_reduce(current)[1]
    /\ changed' = beta_reduce(current)[2]
    /\ UNCHANGED <<string_lambda, pc, parsed, printed, reparsed, spaced,
                   inserted, parsed_spaced, factors, subst_args, subst_result>>

\* the loop condition fails: full_beta_reduce returns current, which is
\* printed and returned
full_beta_reduce_return ==
    /\ pc = "reduce"
    /\ ~changed
    /\ pc' = "done"
    /\ printed' = repr(current)
    /\ UNCHANGED <<string_lambda, parsed, current, changed, reparsed, spaced,
                   inserted, parsed_spaced, factors, subst_args, subst_result>>

Next ==
    \/ LambdaBetaReduce_parse
    \/ full_beta_reduce_step
    \/ full_beta_reduce_return

Spec == Init /\ [][Next]_vars

-----------------------------------------------------------------------------
(* Claims about the driver: parse outcomes *)

SyntaxErrorMessages ==
    { "Expected a variable after lambda",
      "Expected dot after lambda variable",
      "Expected ')'",
      "Unexpected end of input",
      "Unexpected character",
      "Extra characters after valid expression" }

RECURSIVE IsTerm(_)
IsTerm(e) ==
    /\ e # None
    /\ IF IsVar(e) THEN isalpha(e[2])
       ELSE IF IsLambda(e) THEN IsVar(e[2]) /\ IsTerm(e[3])
       ELSE IsApp(e) /\ IsTerm(e[2]) /\ IsTerm(e[3])

\* C3: parse is total-or-failing.  Once parse has run on any input, either
\* it returned a well-formed Term with the cursor at the length of the
\* stripped input, or it raised a SyntaxError carrying one of the six
\* messages; no other failure (no out-of-range read of the text, no other
\* message) and no Term for a proper prefix.
C3_TotalOrFailing ==
    pc # "start" =>
        \/ /\ parsed.ok
           /\ IsTerm(parsed.term)
           /\ parsed.pos = Len(remove_spaces(string_lambda))
        \/ /\ ~parsed.ok
           /\ parsed.term = None
           /\ parsed.msg \in SyntaxErrorMessages

\* a well-formed prefix followed by leftover characters was rejected
C3_Witness ==
    /\ pc = "syntax_error"
    /\ parsed.msg = "Extra characters after valid expression"
    /\ parsed.pos > 0

\* the number of "(" minus the number of ")" in s[i..j]
RECURSIVE Balance(_, _, _)
Balance(s, i, j) ==
    IF i > j THEN 0
    ELSE (IF s[j] = "(" THEN 1 ELSE IF s[j] = ")" THEN -1 ELSE 0)
         + Balance(s, i, j - 1)

\* the "(" at index i of s is never closed
Unclosed(s, i) ==
    /\ s[i] = "("
    /\ \A j \in i..Len(s) : Balance(s, i, j) > 0

\* the parser gets as far as consuming the "(" at index i: the text up to
\* and including it is rejected only for ending there
ReachesParen(s, i) ==
    /\ s[i] = "("
    /\ LET p == parse(SubSeq(s, 1, i))
       IN  ~p.ok /\ p.msg = "Unexpected end of input"

\* s[i+1..j] is a complete expression and nothing but the end of the text
\* or a "." follows it
CompleteInside(s, i, j) ==
    /\ j > i
    /\ parse(SubSeq(s, i + 1, j)).ok
    /\ (j = Len(s) \/ s[j + 1] = ".")

\* C5 as stated: every open paren the parser reaches that has no matching
\* close paren makes parse fail with "Expected ')'".
C5_UnclosedAlwaysExpectedParen ==
    pc # "start" =>
        LET s == remove_spaces(string_lambda)
        IN  \A i \in 1..Len(s) :
                (ReachesParen(s, i) /\ Unclosed(s, i))
                    => (~parsed.ok /\ parsed.msg = "Expected ')'")

\* C5 amended: when the parser reaches an open paren, the text after it is a
\* complete expression, and then the input ends or a "." stands where the
\* close paren is required, parse fails with "Expected ')'".
C5_ExpectedParenAfterCompleteExpr ==
    pc # "start" =>
        LET s == remove_spaces(string_lambda)
        IN  \A i \in 1..Len(s) : \A j \in i..Len(s) :
                (ReachesParen(s, i) /\ CompleteInside(s, i, j))
                    => (~parsed.ok /\ parsed.msg = "Expected ')'")

\* "(x" was parsed: the paren is reached, x is complete, the input ends
C5_Witness ==
    /\ pc = "syntax_error"
    /\ string_lambda = <<"(", "x">>
    /\ ReachesParen(string_lambda, 1)
    /\ CompleteInside(string_lambda, 1, 2)
    /\ parsed.msg = "Expected ')'"

-----------------------------------------------------------------------------
(* Claims about the driver: reduction *)

IsRedex(e) == IsApp(e) /\ IsLambda(e[2])

RECURSIVE HasRedex(_)
HasRedex(e) ==
    IF IsVar(e) THEN FALSE
    ELSE IF IsLambda(e) THEN HasRedex(e[3])
    ELSE IsRedex(e) \/ HasRedex(e[2]) \/ HasRedex(e[3])

\* C6: on the self-application loop the driver never returns.  Parsing
\* succeeds, and from then on the term is the redex Omega, the flag is true,
\* and one more step yields Omega with changed = true again.
C6_OmegaNeverReturns ==
    string_lambda = OmegaText =>
        /\ pc \in {"start", "reduce"}
        /\ pc = "reduce" =>
              /\ current = Omega
              /\ changed
              /\ TermSize(current) <= MaxGrow
              /\ beta_reduce(current) = <<Omega, TRUE>>

\* the loop is running on Omega
C6_Witness ==
    /\ string_lambda = OmegaText
    /\ pc = "reduce"
    /\ ENABLED full_beta_reduce_step
    /\ ~ENABLED full_beta_reduce_return

\* C8: on every term the loop holds, the step reports changed = false
\* exactly when the term has no redex at any depth, and then returns the
\* term itself; and the term full_beta_reduce returns has no redex.
C8_UnchangedIffNormal ==
    /\ pc = "reduce" =>
          /\ beta_reduce(current)[2] = HasRedex(current)
          /\ ~beta_reduce(current)[2] => beta_reduce(current)[1] = current
    /\ pc = "done" => ~HasRedex(current)

\* the loop returned after at least one real reduction
C8_Witness ==
    /\ pc = "done"
    /\ current # parsed.term
    /\ HasRedex(parsed.term)
    /\ ~HasRedex(current)

\* the positions of the redexes of e, as paths from the root
RECURSIVE RedexPaths(_)
RedexPaths(e) ==
    (IF IsRedex(e) THEN {<<>>} ELSE {})
    \cup (IF IsApp(e)
          THEN {<<"func">> \o q : q \in RedexPaths(e[2])}
               \cup {<<"arg">> \o q : q \in RedexPaths(e[3])}
          ELSE IF IsLambda(e)
          THEN {<<"body">> \o q : q \in RedexPaths(e[3])}
          ELSE {})

\* a comes before b in the fixed order: an enclosing redex before the
\* redexes inside it, the function side before the argument side
RECURSIVE Before(_, _)
Before(a, b) ==
    IF a = <<>> THEN b # <<>>
    ELSE IF b = <<>> THEN FALSE
    ELSE IF Head(a) = Head(b) THEN Before(Tail(a), Tail(b))
    ELSE Head(a) = "func" /\ Head(b) = "arg"

FirstRedex(e) ==
    CHOOSE a \in RedexPaths(e) : \A b \in RedexPaths(e) \ {a} : Before(a, b)

\* e with the redex at path a contracted and everything else kept
RECURSIVE ContractAt(_, _)
ContractAt(e, a) ==
    IF a = <<>> THEN substitute(e[2][3], e[2][2], e[3])
    ELSE IF Head(a) = "func" THEN App(ContractAt(e[2], Tail(a)), e[3])
    ELSE IF Head(a) = "arg" THEN App(e[2], ContractAt(e[3], Tail(a)))
    ELSE Lambda(e[2], ContractAt(e[3], Tail(a)))

\* C9: on every term the loop holds, the step contracts exactly one redex,
\* the first in the fixed order (enclosing before enclosed, function before
\* argument), and keeps the rest of the term, binders included.
C9_ContractsFirstRedex ==
    (pc = "reduce" /\ HasRedex(current)) =>
        beta_reduce(current) = <<ContractAt(current, FirstRedex(current)), TRUE>>

\* the loop holds a term with a redex on both sides of an application
C9_Witness ==
    /\ pc = "reduce"
    /\ IsApp(current)
    /\ ~IsRedex(current)
    /\ HasRedex(current[2])
    /\ HasRedex(current[3])
    /\ beta_reduce(current)[1][3] = current[3]

LambdaYY == <<"(", "λ", "y", ".", "y", ")">>

\* C10: substitution never renames a binder.  When the loop holds a redex
\* (λv.(λp.b)) a with p other than v, the step yields λp.(b with v replaced
\* by a), p kept verbatim also when p is free in a; and the driver prints
\* (λy.y) for (λx.λy.x)y.
C10_CaptureUnsafe ==
    /\ (/\ pc = "reduce"
        /\ IsRedex(current)
        /\ IsLambda(current[2][3])
        /\ current[2][3][2] # current[2][2])
       => beta_reduce(current)[1] =
              Lambda(current[2][3][2],
                     substitute(current[2][3][3], current[2][2], current[3]))
    /\ (string_lambda = CaptureText /\ pc = "done") => printed = LambdaYY

\* (λx.λy.x)y was normalized and the free y was captured
C10_Witness ==
    /\ string_lambda = CaptureText
    /\ pc = "done"
    /\ "y" \in FreeVars(parsed.term)
    /\ FreeVars(current) = {}

-----------------------------------------------------------------------------
(* Round trip: the printed rendering of a parsed term is parsed again *)

\* parse applied to the rendering LambdaBetaReduce printed for the parsed term
Reparse ==
    /\ pc = "reduce"
    /\ reparsed' = parse(printed)
    /\ pc' = "reparsed"
    /\ UNCHANGED <<string_lambda, parsed, current, changed, printed, spaced,
                   inserted, parsed_spaced, factors, subst_args, subst_result>>

NextRoundTrip ==
    \/ LambdaBetaReduce_parse
    \/ Reparse

SpecRoundTrip == Init /\ [][NextRoundTrip]_vars

\* C1: for every Term parse returned, parsing its rendering succeeds and
\* returns a structurally equal Term.
C1_RoundTrip ==
    pc = "reparsed" =>
        /\ printed = repr(parsed.term)
        /\ reparsed.ok
        /\ reparsed.term = parsed.term

\* an application of an application was rendered, with parentheses and
\* spaces the input did not have, and parsed back
C1_Witness ==
    /\ pc = "reparsed"
    /\ IsApp(parsed.term)
    /\ IsApp(parsed.term[3])
    /\ printed # string_lambda
    /\ reparsed.term = parsed.term

-----------------------------------------------------------------------------
(* Whitespace: a text and the same text with whitespace inserted *)

Whitespace == {Space, Tab}

InitSpace ==
    /\ string_lambda \in StringsUpTo(MaxSpacedLen)
    /\ spaced = string_lambda
    /\ inserted = {}
    /\ pc = "start"
    /\ parsed = NoOutcome
    /\ parsed_spaced = NoOutcome
    /\ current = None
    /\ changed = FALSE
    /\ printed = <<>>
    /\ reparsed = NoOutcome
    /\ factors = <<>>
    /\ subst_args = <<None, None, None>>
    /\ subst_result = None

\* the caller writes one more whitespace character somewhere into the text
InsertWhitespace ==
    /\ pc = "start"
    /\ Len(spaced) < Len(string_lambda) + MaxInsert
    /\ \E i \in 0..Len(spaced), c \in Whitespace :
          /\ spaced' = SubSeq(spaced, 1, i) \o <<c>> \o SubSeq(spaced, i + 1, Len(spaced))
          /\ inserted' = inserted \cup {c}
    /\ UNCHANGED <<string_lambda, pc, parsed, current, changed, printed,
                   reparsed, parsed_spaced, factors, subst_args, subst_result>>

\* parse is called on the text and on the text with the insertions
ParseBoth ==
    /\ pc = "start"
    /\ parsed' = parse(string_lambda)
    /\ parsed_spaced' = parse(spaced)
    /\ pc' = "compared"
    /\ UNCHANGED <<string_lambda, current, changed, printed, reparsed, spaced,
                   inserted, factors, subst_args, subst_result>>

NextSpace ==
    \/ InsertWhitespace
    \/ ParseBoth

SpecSpace == InitSpace /\ [][NextSpace]_vars

\* the same Term, or the same SyntaxError message
SameOutcome(p, q) ==
    /\ p.ok = q.ok
    /\ p.term = q.term
    /\ p.msg = q.msg
    /\ p.ch = q.ch

\* C2 as stated: inserting whitespace characters of any kind anywhere in the
\* input leaves the outcome of parse the same.
C2_AnyWhitespaceDiscarded ==
    pc = "compared" => SameOutcome(parsed, parsed_spaced)

\* C2 amended: inserting space characters (U+0020) anywhere in the input
\* leaves the outcome of parse the same.
C2_SpacesDiscarded ==
    (pc = "compared" /\ inserted \subseteq {Space})
        => SameOutcome(parsed, parsed_spaced)

\* a space was put between two letters and both texts parsed to x applied to y
C2_Witness ==
    /\ pc = "compared"
    /\ inserted = {Space}
    /\ string_lambda = <<"x", "y">>
    /\ spaced = <<"x", Space, "y">>
    /\ parsed_spaced.ok
    /\ parsed_spaced.term = App(Var("x"), Var("y"))

-----------------------------------------------------------------------------
(* Juxtaposition: a text written as a sequence of Factors *)

\* texts derived from Factor ::= '(' Expr ')' | Lambda | Letter
FactorTexts ==
    { <<"x">>,
      <<"y">>,
      <<"(", "x", ")">>,
      <<"(", "x", Space, "y", ")">>,
      <<"(", "λ", "x", ".", "x", ")">>,
      <<"λ", "x", ".", "x">>,
      <<"\\", "y", ".", "y", "x">> }

InitApp ==
    /\ factors = <<>>
    /\ string_lambda = <<>>
    /\ pc = "start"
    /\ parsed = NoOutcome
    /\ current = None
    /\ changed = FALSE
    /\ printed = <<>>
    /\ reparsed = NoOutcome
    /\ spaced = <<>>
    /\ inserted = {}
    /\ parsed_spaced = NoOutcome
    /\ subst_args = <<None, None, None>>
    /\ subst_result = None

\* the caller writes one more Factor at the end of the text
WriteFactor ==
    /\ pc = "start"
    /\ Len(factors) < MaxFactors
    /\ \E f \in FactorTexts :
          /\ factors' = Append(factors, f)
          /\ string_lambda' = string_lambda \o f
    /\ UNCHANGED <<pc, parsed, current, changed, printed, reparsed, spaced,
                   inserted, parsed_spaced, subst_args, subst_result>>

\* parse is called on the text
ParseFactors ==
    /\ pc = "start"
    /\ factors # <<>>
    /\ parsed' = parse(string_lambda)
    /\ pc' = "parsed"
    /\ UNCHANGED <<string_lambda, current, changed, printed, reparsed, spaced,
                   inserted, parsed_spaced, factors, subst_args, subst_result>>

NextApp ==
    \/ WriteFactor
    \/ ParseFactors

SpecApp == InitApp /\ [][NextApp]_vars

\* Application(...Application(Application(t1, t2), t3)..., tn) for the
\* Terms ti of the factor texts fs
RECURSIVE LeftNested(_)
LeftNested(fs) ==
    IF Len(fs) = 1 THEN parse(fs[1]).term
    ELSE App(LeftNested(SubSeq(fs, 1, Len(fs) - 1)), parse(fs[Len(fs)]).term)

IsLambdaText(f) == Head(f) \in LambdaSyms

\* C4 as stated: any n >= 2 Factors written in sequence parse to the
\* left-nested Application of their Terms.
C4_AnyFactorsLeftNested ==
    (pc = "parsed" /\ Len(factors) >= 2)
        => (parsed.ok /\ parsed.term = LeftNested(factors))

\* C4 amended: n >= 2 Factors written in sequence, of which none but the
\* last is an unparenthesized Lambda, parse to the left-nested Application
\* of their Terms.
C4_LeftAssociative ==
    (/\ pc = "parsed"
     /\ Len(factors) >= 2
     /\ \A i \in 1..(Len(factors) - 1) : ~IsLambdaText(factors[i]))
        => (parsed.ok /\ parsed.term = LeftNested(factors))

\* three factors, the last a lambda, parsed to ((t1 t2) t3)
C4_Witness ==
    /\ pc = "parsed"
    /\ Len(factors) = 3
    /\ IsLambdaText(factors[3])
    /\ parsed.ok
    /\ IsApp(parsed.term)
    /\ IsApp(parsed.term[2])
    /\ IsLambda(parsed.term[3])

-----------------------------------------------------------------------------
(* substitute on its own *)

InitSubst ==
    /\ subst_args \in TermsUpTo(MaxExprSize) \X VarTerms \X TermsUpTo(MaxSubSize)
    /\ subst_result = None
    /\ pc = "start"
    /\ string_lambda = <<>>
    /\ parsed = NoOutcome
    /\ current = None
    /\ changed = FALSE
    /\ printed = <<>>
    /\ reparsed = NoOutcome
    /\ spaced = <<>>
    /\ inserted = {}
    /\ parsed_spaced = NoOutcome
    /\ factors = <<>>

Substitute ==
    /\ pc = "start"
    /\ subst_result' = substitute(subst_args[1], subst_args[2], subst_args[3])
    /\ pc' = "substituted"
    /\ UNCHANGED <<string_lambda, parsed, current, changed, printed, reparsed,
                   spaced, inserted, parsed_spaced, factors, subst_args>>

NextSubst == Substitute

SpecSubst == InitSubst /\ [][NextSubst]_vars

\* C7: substituting Variable(v) for v in any Term returns a structurally
\* equal Term.
C7_SubstitutionIdentity ==
    (pc = "substituted" /\ subst_args[3] = subst_args[2])
        => subst_result = subst_args[1]

\* v was substituted for itself in an application where v occurs free in
\* the function and is bound again in the argument
C7_Witness ==
    /\ pc = "substituted"
    /\ subst_args[3] = subst_args[2]
    /\ IsApp(subst_args[1])
    /\ subst_args[2][2] \in FreeVars(subst_args[1][2])
    /\ IsLambda(subst_args[1][3])
    /\ subst_args[1][3][2] = subst_args[2]
    /\ subst_result = subst_args[1]

====
